---- MODULE Spec2Model ----
(***************************************************************************)
(* Model of the UDP/TCP latency probes of this repository:                 *)
(*   A3_Client.py      UDP client (probe/ack reconciliation, CSV log)      *)
(*   A3.py             UDP server (drop-k / Bernoulli loss, ack echo)      *)
(*   A3_TCP_Client.py  TCP client                                          *)
(*   A3_TCP.py         TCP server (artificial delay before the ack)        *)
(*                                                                         *)
(* Clocks.  The UDP programs' clock is counted in whole seconds (perf is   *)
(* time.perf_counter() of the client; the wall clock is perf + WallEpoch,   *)
(* an offset fixed for the run: steps of the wall clock are not modelled).  *)
(* The TCP programs' clock, tnow, is counted in milliseconds.              *)
(* The UDP client never reads server_recv_ts, so UDP acks carry seq only.  *)
(*                                                                         *)
(* Specifications.                                                         *)
(*   Spec         the UDP client; recvfrom may return any datagram         *)
(*   SpecLossy    UDP client and drop-k server, lossy duplicating network  *)
(*   SpecInOrder  UDP client and server, timely in-order network           *)
(*   SpecRepro    two runs of the Bernoulli server on the same datagrams   *)
(*   SpecTcp      TCP client and server on a reliable stream               *)
(*   SpecStart    the UDP server started with any options                  *)
(*   SpecTcpAny   the TCP client; recv may return anything                 *)
(*   SpecTcpLate  TCP client and server, acks later than the timeout       *)
(*   SpecServers  either server, fed any messages                          *)
(*   SpecLive     the UDP client with fairness (termination)               *)
(*   SpecClients  either client, any peer                                  *)
(* Optional values ("" in a CSV cell, None, a missing dict key) are the    *)
(* empty tuple <<>>, a present value v is <<v>>.                           *)
(***************************************************************************)
EXTENDS Integers, Sequences, FiniteSets, TLC

\* ------------------------------------------------------------------ bounds
MaxN == 2          \* largest --n of the UDP client under arbitrary deliveries
MaxTime == 2       \* the monotonic clock stops advancing here
MaxTimeout == 1    \* largest --timeout, in seconds
WallEpoch == 1     \* what time.time() reads when time.perf_counter() reads 0
MaxRecv == 3       \* datagrams a server handles on a network that duplicates
MaxK == 2          \* largest --drop-k on the lossy network
MaxSeed == 1       \* largest --seed
RngMod == 4        \* resolution of random.random() and of --loss-prob
RngMul == 5        \* multiplier of the model generator
RngInc == 3        \* increment of the model generator
MaxFeed == 3       \* datagrams fed to the two compared server runs
ScenarioN == 10    \* largest --n on the in-order network (scenario A: 10)
ScenarioK == 3     \* largest --drop-k on the in-order network (scenario A: 3)
ScenarioTime == 3  \* the clock stops here on the in-order network
MaxTcpN == 2       \* largest --n of the TCP client
MaxDelay == 2      \* largest --delay-ms of the TCP server
MaxTcpTime == 4    \* the TCP programs' clock stops here
MaxTcpSkew == 1    \* largest lead of the server's wall clock over the client's
MaxTcpTimeout == 1 \* largest --recv-timeout of the TCP client, in milliseconds

\* ------------------------------------------------------------- datagrams
None == <<>>
Some(v) == <<v>>

\* A datagram as the receiver's parser sees it: a JSON object with a seq
\* field, a JSON object without one, or bytes that are not JSON at all.
Json(s) == [kind |-> "json_seq", seq |-> s]
\* The server reads only seq of a probe, the UDP client only seq of an ack.
\* (faulty variant: the probes are numbered from 0)
ProbeZeroBased(s) == Json(s - 1)
Probe(s) == Json(s)
Ack(s) == Json(s)
NoSeq == [kind |-> "json_noseq", seq |-> 0]
Garbage == [kind |-> "garbage", seq |-> 0]

\* json.loads(rx.decode()) followed by int(ack.get("seq")): the seq, or None
\* when either call raises.
ParseSeq(m) == IF m.kind = "json_seq" THEN Some(m.seq) ELSE None

\* What an unconstrained network may hand to the client's recvfrom.
AnySeqs == 1 .. (MaxN + 1)
AnyDatagrams == {Ack(s) : s \in AnySeqs} \cup {NoSeq, Garbage}

\* ------------------------------------------------------------------ state
VARIABLES
    n,            \* args.n
    timeout,      \* args.timeout
    perf,         \* time.perf_counter()
    pc,           \* position of the client in main()
    seq,          \* loop variable of "for seq in range(1, args.n + 1)"
    sent_count, ack_count,
    seen_seqs, send_perf, send_wall, ack_perf, ack_wall, finalized,
    rows,         \* rows written to the CSV log, in order
    deadline, got_current,
    rx_error,     \* a received datagram raised at lines 73-74 ("RX error")
    summary,      \* the printed summary object, None before
    early,        \* history: seqs whose ack was first observed before their turn
    c2s,          \* the datagrams sent to the server's port, in order
    \* UDP server (A3.py); srv_pc, rng, recv_count, srv_log, acks are per run
    loss_prob,    \* args.loss_prob, in units of 1/RngMod
    drop_k,       \* args.drop_k
    seed,         \* args.seed
    srv_pc,       \* "start", "listening" or "exited"
    rng,          \* state of the random module's generator
    recv_count,
    srv_log,      \* the events of the run: <<"DROP-K" | "LOSS-PROB" | "ACK", seq>>
    acks,         \* the acks the run has sent, in order
    s2c_read,     \* acks an in-order network has delivered to the client
    \* TCP client (A3_TCP_Client.py) and server (A3_TCP.py)
    tn,           \* args.n of the client
    recv_timeout, \* args.recv_timeout of the client, in milliseconds
    delay_ms,     \* args.delay_ms of the server
    tnow,         \* the time, in milliseconds
    srv_skew,     \* server's time.time() minus the client's, in milliseconds
    tpc,          \* position of the client: "for", "recv", "close", "done"
    tseq,         \* loop variable of the client
    tsend_ts,     \* send_ts of the current iteration
    results, rtts,
    tsummary,     \* the printed summary object, None before
    up,           \* the lines the client has written to the stream
    up_read,      \* how many of them the server has read
    down,         \* the lines the server has written to the stream
    down_read,    \* how many of them the client has received
    tsrv          \* the server's pending ack while it sleeps, None otherwise

cvars == <<n, timeout, pc, seq, sent_count, ack_count, seen_seqs, send_perf,
           send_wall, ack_perf, ack_wall, finalized, rows, deadline,
           got_current, rx_error, summary, early, c2s>>
svars == <<loss_prob, drop_k, seed, srv_pc, rng, recv_count, srv_log, acks>>
clocks == <<perf>>
tcvars == <<tn, recv_timeout, tpc, tseq, tsend_ts, results, rtts, tsummary, up, down_read>>
tsvars == <<delay_ms, srv_skew, up_read, down, tsrv>>
tvars == <<tcvars, tsvars, tnow>>
vars == <<cvars, clocks, svars, s2c_read, tvars>>

\* ---------------------------------------------------------------- helpers
EmptyMap == [k \in {} |-> 0]
Put(f, k, v) == [x \in (DOMAIN f) \cup {k} |-> IF x = k THEN v ELSE f[x]]
Has(f, k) == k \in DOMAIN f

now_perf == perf
now_wall == perf + WallEpoch

\* (ack_perf[seq] - send_perf[seq]) * 1000
RttMs(a, s) == (a - s) * 1000

\* The row finalize() builds for seq q with the given outcome, from the
\* dicts send_wall, ack_wall, send_perf, ack_perf as they are at the call.
Row(q, outcome, sw, aw, sp, ap) ==
    [seq |-> q,
     send_ts |-> IF Has(sw, q) THEN Some(sw[q]) ELSE None,
     ack_ts |-> IF outcome = "ACKED" /\ Has(aw, q) THEN Some(aw[q]) ELSE None,
     rtt_ms |-> IF outcome = "ACKED" /\ Has(sp, q) /\ Has(ap, q)
                THEN Some(RttMs(ap[q], sp[q])) ELSE None,
     outcome |-> outcome]

\* writer.writerow(row)
WriteRow(log, row) == Append(log, row)

\* finalize(seq, outcome): the log and the finalized set after the call.
finalize_rows(log, fin, q, outcome, sw, aw, sp, ap) ==
    IF q \in fin THEN log ELSE WriteRow(log, Row(q, outcome, sw, aw, sp, ap))
finalize_set(fin, q) == fin \cup {q}

\* range(1, args.n + 1) has a next element after cur.
\* (faulty variant: range(1, args.n))
RangeShort(cur, count) == cur + 1 < count
RangeHasNext(cur, count) == cur < count

\* Line 84: the received ack is for the current seq, which is not finalized.
\* (faulty variant: the test s == seq is missing)
AnyAckFinalizes(s, cur, fin) == cur \notin fin
AckFinalizesCurrent(s, cur, fin) == s = cur /\ cur \notin fin

\* Line 77: the ack is the first one observed for s.
\* (faulty variant: every ack overwrites the stored times)
AlwaysFirst(s, seen) == TRUE
FirstObservation(s, seen) == s \notin DOMAIN seen

\* ------------------------------------------------------------ UDP client
ClientInit(counts) ==
    /\ n \in counts
    /\ timeout \in 1 .. MaxTimeout
    /\ pc = "for"
    /\ seq = 0
    /\ sent_count = 0 /\ ack_count = 0
    /\ seen_seqs = {} /\ finalized = {}
    /\ send_perf = EmptyMap /\ send_wall = EmptyMap
    /\ ack_perf = EmptyMap /\ ack_wall = EmptyMap
    /\ rows = <<>>
    /\ deadline = 0 /\ got_current = FALSE
    /\ rx_error = FALSE /\ summary = None
    /\ early = {}
    /\ c2s = <<>>

ClockInit == perf = 0

\* Lines 53-63: next seq, record the send times, send the probe.
SendProbe ==
    /\ pc = "for"
    /\ RangeHasNext(seq, n)
    /\ seq' = seq + 1
    /\ IF seq' \in seen_seqs
       THEN /\ pc' = "raised"
            /\ UNCHANGED <<seen_seqs, send_perf, send_wall, sent_count, c2s>>
       ELSE /\ seen_seqs' = seen_seqs \cup {seq'}
            /\ send_perf' = Put(send_perf, seq', now_perf)
            /\ send_wall' = Put(send_wall, seq', now_wall)
            /\ c2s' = Append(c2s, Probe(seq'))
            /\ sent_count' = sent_count + 1
            /\ pc' = "arm"
    /\ UNCHANGED <<n, timeout, ack_count, ack_perf, ack_wall, finalized, rows,
                   deadline, got_current, rx_error, summary, early>>

\* Line 65.
Arm ==
    /\ pc = "arm"
    /\ deadline' = now_perf + timeout
    /\ got_current' = FALSE
    /\ pc' = "wait"
    /\ UNCHANGED <<n, timeout, seq, sent_count, ack_count, seen_seqs, send_perf,
                   send_wall, ack_perf, ack_wall, finalized, rows, rx_error, summary,
                   early, c2s>>

\* Lines 67-68: remaining <= 0.
\* (faulty variant: the test is missing)
BudgetNeverSpent(dl, now) == FALSE
BudgetSpent(dl, now) == dl - now <= 0

\* Lines 67-69: the remaining budget; the loop ends when it is used up.
WaitCheck ==
    /\ pc = "wait"
    /\ pc' = IF BudgetSpent(deadline, now_perf) THEN "after" ELSE "recvfrom"
    /\ UNCHANGED <<n, timeout, seq, sent_count, ack_count, seen_seqs, send_perf,
                   send_wall, ack_perf, ack_wall, finalized, rows, deadline,
                   got_current, rx_error, summary, early, c2s>>

\* Lines 71-85 and 88-89: recvfrom returns datagram m.
ClientRecv(m) ==
    /\ pc = "recvfrom"
    /\ LET p == ParseSeq(m) IN
       IF p = None
       THEN /\ pc' = "wait"
            /\ rx_error' = TRUE
            /\ UNCHANGED <<ack_perf, ack_wall, ack_count, rows, finalized,
                           got_current, early>>
       ELSE LET s == p[1] IN
            /\ UNCHANGED rx_error
            /\ IF FirstObservation(s, ack_perf)
               THEN /\ ack_perf' = Put(ack_perf, s, now_perf)
                    /\ ack_wall' = Put(ack_wall, s, now_wall)
                    /\ early' = IF s > seq THEN early \cup {s} ELSE early
               ELSE UNCHANGED <<ack_perf, ack_wall, early>>
            /\ IF AckFinalizesCurrent(s, seq, finalized)
               THEN /\ ack_count' = ack_count + 1
                    /\ rows' = finalize_rows(rows, finalized, seq, "ACKED",
                                              send_wall, ack_wall', send_perf, ack_perf')
                    /\ finalized' = finalize_set(finalized, seq)
                    /\ got_current' = TRUE
                    /\ pc' = "after"
               ELSE /\ pc' = "wait"
                    /\ UNCHANGED <<ack_count, rows, finalized, got_current>>
    /\ UNCHANGED <<n, timeout, seq, sent_count, seen_seqs, send_perf, send_wall,
                   deadline, summary, c2s>>

\* Line 86: recvfrom raises socket.timeout once the budget set at line 69
\* (which ends at the deadline) has run out.
RecvTimeout ==
    /\ pc = "recvfrom"
    /\ now_perf >= deadline
    /\ pc' = "after"
    /\ UNCHANGED <<n, timeout, seq, sent_count, ack_count, seen_seqs, send_perf,
                   send_wall, ack_perf, ack_wall, finalized, rows, deadline,
                   got_current, rx_error, summary, early, c2s>>

\* Line 92.
\* (faulty variants: the guard is missing; the block is never entered)
AlwaysLateFinalize(got, cur, fin) == TRUE
NeverLateFinalize(got, cur, fin) == FALSE
NeedsLateFinalize(got, cur, fin) == ~got /\ cur \notin fin

\* Line 93: an ack of the current seq was observed at some earlier receive.
\* (faulty variant: acks observed ahead of their turn are not looked up)
NeverSeenEarlier(cur, seen) == FALSE
SeenEarlier(cur, seen) == cur \in DOMAIN seen

\* Lines 92-98: the wait loop is over.
AfterWait ==
    /\ pc = "after"
    /\ IF NeedsLateFinalize(got_current, seq, finalized)
       THEN IF SeenEarlier(seq, ack_perf)
            THEN /\ ack_count' = ack_count + 1
                 /\ rows' = finalize_rows(rows, finalized, seq, "ACKED",
                                          send_wall, ack_wall, send_perf, ack_perf)
                 /\ finalized' = finalize_set(finalized, seq)
            ELSE /\ rows' = finalize_rows(rows, finalized, seq, "TIMEOUT",
                                          send_wall, ack_wall, send_perf, ack_perf)
                 /\ finalized' = finalize_set(finalized, seq)
                 /\ UNCHANGED ack_count
       ELSE UNCHANGED <<ack_count, rows, finalized>>
    /\ pc' = "sleep"
    /\ UNCHANGED <<n, timeout, seq, sent_count, seen_seqs, send_perf, send_wall,
                   ack_perf, ack_wall, deadline, got_current, rx_error, summary, early, c2s>>

\* Line 100: jitter_sleep returns.
Sleep ==
    /\ pc = "sleep"
    /\ pc' = "for"
    /\ UNCHANGED <<n, timeout, seq, sent_count, ack_count, seen_seqs, send_perf,
                   send_wall, ack_perf, ack_wall, finalized, rows, deadline,
                   got_current, rx_error, summary, early, c2s>>

\* ---------------------------------------------------------------- summary
RECURSIVE SeqSum(_)
SeqSum(s) == IF s = <<>> THEN 0 ELSE Head(s) + SeqSum(Tail(s))
SeqMin(s) == CHOOSE x \in {s[i] : i \in DOMAIN s} : \A j \in DOMAIN s : x <= s[j]
SeqMax(s) == CHOOSE x \in {s[i] : i \in DOMAIN s} : \A j \in DOMAIN s : x >= s[j]

\* num/den rounded to the nearest integer, ties to even (Python's round);
\* num >= 0, den > 0.
RoundDiv(num, den) ==
    LET q == num \div den
        r == num % den
    IN IF 2 * r < den THEN q
       ELSE IF 2 * r > den THEN q + 1
       ELSE IF q % 2 = 0 THEN q ELSE q + 1

\* Lines 105-110: the rtt_ms cells of the ACKED rows that have one.
RttSamples(log) ==
    LET kept == SelectSeq(log, LAMBDA r : r.outcome = "ACKED" /\ r.rtt_ms # None)
    IN [i \in DOMAIN kept |-> kept[i].rtt_ms[1]]

\* (faulty variant of Summary: 0 stands for "no sample")
SummarySentinel(sent, acked, samples) ==
    [sent |-> sent, acked |-> acked, loss_ratio |-> 0,
     rtt_ms |-> [avg |-> Some(0), min |-> Some(0), max |-> Some(0)]]

\* Lines 112-121.  loss_ratio is in hundredths (round(loss, 2)); avg, min and
\* max are in thousandths of a millisecond (round(x, 3)), None when there is
\* no sample.
Summary(sent, acked, samples) ==
    [sent |-> sent,
     acked |-> acked,
     loss_ratio |-> IF sent # 0 THEN RoundDiv(100 * (sent - acked), sent) ELSE 0,
     rtt_ms |-> [avg |-> IF samples # <<>>
                         THEN Some((IF SeqSum(samples) >= 0 THEN 1 ELSE -1) *
                                   RoundDiv((IF SeqSum(samples) >= 0 THEN 1 ELSE -1) *
                                            SeqSum(samples) * 1000, Len(samples)))
                         ELSE None,
                 min |-> IF samples # <<>> THEN Some(SeqMin(samples) * 1000) ELSE None,
                 max |-> IF samples # <<>> THEN Some(SeqMax(samples) * 1000) ELSE None]]

\* Lines 53 and 102-124: the range is exhausted; the log is closed, read back
\* and the summary printed.
Summarize ==
    /\ pc = "for"
    /\ ~RangeHasNext(seq, n)
    /\ summary' = Some(Summary(sent_count, ack_count, RttSamples(rows)))
    /\ pc' = "done"
    /\ UNCHANGED <<n, timeout, seq, sent_count, ack_count, seen_seqs, send_perf,
                   send_wall, ack_perf, ack_wall, finalized, rows, deadline,
                   got_current, rx_error, early, c2s>>

\* ----------------------------------------------------------------- clocks
\* A second passes.
Tick(cap) ==
    /\ perf < cap
    /\ perf' = perf + 1

\* ------------------------------------------------------------ UDP server
Runs == {1, 2}

\* The generator behind random.seed / random.random: a deterministic function
\* of the seed and of the number of draws made (a linear congruential step
\* stands for the library's generator).  Unseeded, the module starts from the
\* entropy of the operating system.
\* (faulty variant: random.seed is not applied)
UnseededRng(sd, entropy) == entropy
SeedRng(sd, entropy) == sd % RngMod
NextRng(x) == (RngMul * x + RngInc) % RngMod

\* Line 60.
\* (faulty variant: drops the seq after each multiple of k)
DropKRemainderOne(s, k) == k > 0 /\ s % k = 1
DropK(s, k) == k > 0 /\ s % k = 0

\* Lines 15-19 and the interpreter's start: the options and, per run, the
\* generator as the random module initialises itself.
ServerInit(probs, ks, started, entropy) ==
    /\ loss_prob \in probs
    /\ drop_k \in ks
    /\ seed \in 0 .. MaxSeed
    /\ srv_pc = [r \in Runs |-> IF r \in started THEN "listening" ELSE "start"]
    /\ rng \in [Runs -> entropy]
    /\ recv_count = [r \in Runs |-> 0]
    /\ srv_log = [r \in Runs |-> <<>>]
    /\ acks = [r \in Runs |-> <<>>]

\* Line 22: both loss models are given.
\* (faulty variant: the test is missing)
NeverBoth(p, k) == FALSE
BothLossModels(p, k) == p > 0 /\ k > 0

\* Lines 21-35: both loss models given is an error; otherwise seed, bind.
ServerStart(r) ==
    /\ srv_pc[r] = "start"
    /\ IF BothLossModels(loss_prob, drop_k)
       THEN /\ srv_pc' = [srv_pc EXCEPT ![r] = "exited"]
            /\ UNCHANGED rng
       ELSE /\ rng' = [rng EXCEPT ![r] = SeedRng(seed, rng[r])]
            /\ srv_pc' = [srv_pc EXCEPT ![r] = "listening"]
    /\ UNCHANGED <<loss_prob, drop_k, seed, recv_count, srv_log, acks>>

\* Lines 49-72: one datagram d is received by run r.
ServerRecv(r, d) ==
    /\ srv_pc[r] = "listening"
    /\ recv_count' = [recv_count EXCEPT ![r] = @ + 1]
    /\ LET p == ParseSeq(d) IN
       IF p = None
       THEN UNCHANGED <<rng, srv_log, acks>>
       ELSE LET s == p[1] IN
            IF DropK(s, drop_k)
            THEN /\ srv_log' = [srv_log EXCEPT ![r] = Append(@, <<"DROP-K", s>>)]
                 /\ UNCHANGED <<rng, acks>>
            ELSE IF loss_prob > 0
            THEN /\ rng' = [rng EXCEPT ![r] = NextRng(@)]
                 /\ IF rng'[r] < loss_prob
                    THEN /\ srv_log' = [srv_log EXCEPT
                                           ![r] = Append(@, <<"LOSS-PROB", s>>)]
                         /\ UNCHANGED acks
                    ELSE /\ acks' = [acks EXCEPT ![r] = Append(@, Ack(s))]
                         /\ srv_log' = [srv_log EXCEPT ![r] = Append(@, <<"ACK", s>>)]
            ELSE /\ acks' = [acks EXCEPT ![r] = Append(@, Ack(s))]
                 /\ srv_log' = [srv_log EXCEPT ![r] = Append(@, <<"ACK", s>>)]
                 /\ UNCHANGED rng
    /\ UNCHANGED <<loss_prob, drop_k, seed, srv_pc>>

\* No server is started.
ServerIdle == ServerInit({0}, {0}, {}, {0})

\* ------------------------------------------------- TCP client and server
\* Times are in milliseconds: (ack_ts - send_ts) * 1000.0 of two readings in
\* seconds is their difference in milliseconds.
TcpRttMs(ack_ts, send_ts) == ack_ts - send_ts

ClientWall == tnow
ServerWall == tnow + srv_skew

\* A line of the stream that json.loads accepts, with the fields read.
ProbeLine(s) == [kind |-> "json_seq", seq |-> s]
AckLine(s, ts) == [kind |-> "json_seq", seq |-> s, server_recv_ts |-> ts]

\* A line without the server_recv_ts field, and one without the seq field.
AckLineNoTs(s) == [kind |-> "json_seq", seq |-> s]
AckLineNoSeq(ts) == [kind |-> "json_noseq", seq |-> 0, server_recv_ts |-> ts]

TcpInit(counts, delays, skews, timeouts) ==
    /\ tn \in counts
    /\ recv_timeout \in timeouts
    /\ delay_ms \in delays
    /\ srv_skew \in skews
    /\ tnow = 0
    /\ tpc = "for" /\ tseq = 0 /\ tsend_ts = 0
    /\ results = <<>> /\ rtts = <<>> /\ tsummary = None
    /\ up = <<>> /\ up_read = 0 /\ down = <<>> /\ down_read = 0
    /\ tsrv = None

\* Neither TCP program runs.
TcpIdle == TcpInit({0}, {0}, {0}, {1})

\* A3_TCP_Client.py lines 47-53: next seq, sendall.
TcpSend ==
    /\ tpc = "for"
    /\ tseq < tn
    /\ tseq' = tseq + 1
    /\ tsend_ts' = ClientWall
    /\ up' = Append(up, ProbeLine(tseq'))
    /\ tpc' = "recv"
    /\ UNCHANGED <<tn, recv_timeout, results, rtts, tsummary, down_read>>

\* A3_TCP_Client.py lines 47-53 and 70-72: sendall raises (the peer has closed
\* or reset the connection); nothing is written to the stream.
TcpSendFails ==
    /\ tpc = "for"
    /\ tseq < tn
    /\ tseq' = tseq + 1
    /\ tsend_ts' = ClientWall
    /\ tpc' = "close"
    /\ UNCHANGED <<tn, recv_timeout, results, rtts, tsummary, up, down_read>>

\* A3_TCP_Client.py line 56: ack.get("server_recv_ts", time.time()).
AckTs(line) ==
    IF "server_recv_ts" \in DOMAIN line THEN line.server_recv_ts ELSE ClientWall

\* A3_TCP_Client.py line 55: json.loads accepts the received bytes: exactly one
\* line, and that line a JSON object (not the empty read of a closed stream,
\* not two lines, not bytes that are no JSON).
LoadsOk(data) == Len(data) = 1 /\ data[1].kind # "garbage"

\* A3_TCP_Client.py lines 54-64 and 70-72: recv returns the lines data.
TcpRecvData(data) ==
    /\ tpc = "recv"
    /\ IF LoadsOk(data)
       THEN LET ack_ts == AckTs(data[1])
                rtt_ms == TcpRttMs(ack_ts, tsend_ts)
            IN /\ rtts' = Append(rtts, rtt_ms)
               /\ results' = Append(results, <<tseq, tsend_ts, Some(ack_ts), Some(rtt_ms)>>)
               /\ tpc' = "for"
       ELSE /\ tpc' = "close"
            /\ UNCHANGED <<rtts, results>>
    /\ UNCHANGED <<tn, recv_timeout, tseq, tsend_ts, tsummary, up>>

\* recv returns the next k lines of the stream.
TcpRecv(k) ==
    /\ k >= 1 /\ down_read + k <= Len(down)
    /\ down_read' = down_read + k
    /\ TcpRecvData(SubSeq(down, down_read + 1, down_read + k))

\* A3_TCP_Client.py lines 40, 54 and 66-69: no byte has arrived within
\* recv_timeout of the call of recv (made at the time of the send).
TcpRecvTimeout ==
    /\ tpc = "recv"
    /\ down_read = Len(down)
    /\ tnow >= tsend_ts + recv_timeout
    /\ results' = Append(results, <<tseq, tsend_ts, None, None>>)
    /\ tpc' = "for"
    /\ UNCHANGED <<tn, recv_timeout, tseq, tsend_ts, rtts, tsummary, up, down_read>>

\* A3_TCP_Client.py lines 54 and 70-72: recv raises ConnectionResetError.
TcpRecvReset ==
    /\ tpc = "recv"
    /\ tpc' = "close"
    /\ UNCHANGED <<tn, recv_timeout, tseq, tsend_ts, results, rtts, tsummary, up,
                   down_read>>

\* A3_TCP_Client.py lines 85-105.  avg is in thousandths of a millisecond.
TcpSummary(count, samples) ==
    IF samples # <<>>
    THEN [sent |-> count, acked |-> Len(samples),
          rtt_ms |-> Some([min |-> SeqMin(samples), max |-> SeqMax(samples),
                           sum |-> SeqSum(samples)])]
    ELSE [sent |-> count, acked |-> 0, rtt_ms |-> None]

\* A3_TCP_Client.py lines 47 and 74-107: the loop is over (exhausted or left by
\* break); the socket is closed, the log written, the summary printed.
TcpSummarize ==
    /\ \/ tpc = "for" /\ ~(tseq < tn)
       \/ tpc = "close"
    /\ tsummary' = Some(TcpSummary(tn, rtts))
    /\ tpc' = "done"
    /\ UNCHANGED <<tn, recv_timeout, tseq, tsend_ts, results, rtts, up, down_read>>

\* A3_TCP.py lines 35-37.
\* (faulty variant: the ack line is written twice)
TcpAckWrittenTwice(p) ==
    Append(Append(down, AckLine(p.seq, p.recv_ts)), AckLine(p.seq, p.recv_ts))
\* (faulty variant: the clock is read again when the ack is built)
TcpAckStampedLate(p) == Append(down, AckLine(p.seq, ServerWall))
TcpAckWritten(p) == Append(down, AckLine(p.seq, p.recv_ts))

\* A3_TCP.py lines 20-33 (and 35-37 without delay): the next line is read.
TcpSrvRead ==
    /\ tsrv = None
    /\ up_read < Len(up)
    /\ up_read' = up_read + 1
    /\ LET line == up[up_read + 1]
           recv_ts == ServerWall
           p == ParseSeq(line)
       IN IF p = None
          THEN UNCHANGED <<down, tsrv>>
          ELSE IF delay_ms > 0
          THEN /\ tsrv' = Some([seq |-> p[1], recv_ts |-> recv_ts,
                                wake |-> tnow + delay_ms])
               /\ UNCHANGED down
          ELSE /\ down' = TcpAckWritten([seq |-> p[1], recv_ts |-> recv_ts])
               /\ UNCHANGED tsrv
    /\ UNCHANGED <<delay_ms, srv_skew>>

\* A3_TCP.py lines 33-37: time.sleep returns, the ack is written and flushed.
TcpSrvAck ==
    /\ tsrv # None
    /\ tnow >= tsrv[1].wake
    /\ down' = TcpAckWritten(tsrv[1])
    /\ tsrv' = None
    /\ UNCHANGED <<delay_ms, srv_skew, up_read>>

\* A millisecond passes.
TcpTick ==
    /\ tnow < MaxTcpTime
    /\ tnow' = tnow + 1

\* ------------------------------------------- the client on any network
\* The client alone; its recvfrom may return any datagram at all.
Init == ClientInit(0 .. MaxN) /\ ClockInit /\ ServerIdle /\ s2c_read = 0 /\ TcpIdle

others == <<clocks, svars, s2c_read, tvars>>

Next ==
    \/ SendProbe /\ UNCHANGED others
    \/ Arm /\ UNCHANGED others
    \/ WaitCheck /\ UNCHANGED others
    \/ \E m \in AnyDatagrams : ClientRecv(m) /\ UNCHANGED others
    \/ RecvTimeout /\ UNCHANGED others
    \/ AfterWait /\ UNCHANGED others
    \/ Sleep /\ UNCHANGED others
    \/ Summarize /\ UNCHANGED others
    \/ Tick(MaxTime) /\ UNCHANGED <<cvars, svars, s2c_read, tvars>>

Spec == Init /\ [][Next]_vars

\* ------------------------- the client on any network, the clock advancing
\* The client keeps running and the clock keeps advancing; the network may
\* deliver any datagram at any receive, for ever.  Time is counted while the
\* client waits for an ack, up to the deadline of the wait (time that passes
\* elsewhere, or after the deadline, only brings the end of a wait nearer).
WaitTick ==
    /\ pc \in {"wait", "recvfrom"}
    /\ perf < deadline
    /\ perf' = perf + 1

ClientStep ==
    \/ SendProbe \/ Arm \/ WaitCheck \/ RecvTimeout \/ AfterWait \/ Sleep
    \/ Summarize

NextLive ==
    \/ SendProbe /\ UNCHANGED others
    \/ Arm /\ UNCHANGED others
    \/ WaitCheck /\ UNCHANGED others
    \/ \E m \in AnyDatagrams : ClientRecv(m) /\ UNCHANGED others
    \/ RecvTimeout /\ UNCHANGED others
    \/ AfterWait /\ UNCHANGED others
    \/ Sleep /\ UNCHANGED others
    \/ Summarize /\ UNCHANGED others
    \/ WaitTick /\ UNCHANGED <<cvars, svars, s2c_read, tvars>>

SpecLive ==
    /\ Init /\ [][NextLive]_vars
    /\ WF_vars(ClientStep /\ UNCHANGED others)
    /\ WF_vars(WaitTick /\ UNCHANGED <<cvars, svars, s2c_read, tvars>>)

\* ------------------- client and server on a lossy, duplicating network
\* Deterministic mode.  A datagram that was sent may be delivered at any later
\* time, any number of times, in any order, or never; nothing else is
\* delivered.
InitLossy ==
    /\ ClientInit(0 .. MaxN) /\ ClockInit /\ s2c_read = 0
    /\ ServerInit({0}, 1 .. MaxK, {}, {0})
    /\ TcpIdle

NextLossy ==
    \/ SendProbe /\ UNCHANGED others
    \/ Arm /\ UNCHANGED others
    \/ WaitCheck /\ UNCHANGED others
    \/ \E i \in DOMAIN acks[1] : ClientRecv(acks[1][i]) /\ UNCHANGED others
    \/ RecvTimeout /\ UNCHANGED others
    \/ AfterWait /\ UNCHANGED others
    \/ Sleep /\ UNCHANGED others
    \/ Summarize /\ UNCHANGED others
    \/ ServerStart(1) /\ UNCHANGED <<cvars, clocks, s2c_read, tvars>>
    \/ \E i \in DOMAIN c2s :
          /\ recv_count[1] < MaxRecv
          /\ ServerRecv(1, c2s[i])
          /\ UNCHANGED <<cvars, clocks, s2c_read, tvars>>
    \/ Tick(MaxTime) /\ UNCHANGED <<cvars, svars, s2c_read, tvars>>

SpecLossy == InitLossy /\ [][NextLossy]_vars

\* ------------------------- client and server on a timely in-order network
\* Every datagram is delivered once, in the order sent, and an ack reaches the
\* client before the deadline of the wait it is sent in: the clock does not
\* reach the deadline while a datagram is on its way.  Time passes while the
\* client is blocked, in recvfrom or in the sleep between two probes.  The
\* server is already listening.
InFlight == recv_count[1] < Len(c2s) \/ s2c_read < Len(acks[1])

InitInOrder ==
    /\ ClientInit(1 .. ScenarioN) /\ ClockInit /\ s2c_read = 0
    /\ ServerInit({0}, 0 .. ScenarioK, {1}, {0})
    /\ TcpIdle

NextInOrder ==
    \/ SendProbe /\ UNCHANGED others
    \/ Arm /\ UNCHANGED others
    \/ WaitCheck /\ UNCHANGED others
    \/ /\ s2c_read < Len(acks[1])
       /\ ClientRecv(acks[1][s2c_read + 1])
       /\ s2c_read' = s2c_read + 1
       /\ UNCHANGED <<clocks, svars, tvars>>
    \/ RecvTimeout /\ UNCHANGED others
    \/ AfterWait /\ UNCHANGED others
    \/ Sleep /\ UNCHANGED others
    \/ Summarize /\ UNCHANGED others
    \/ /\ recv_count[1] < Len(c2s)
       /\ ServerRecv(1, c2s[recv_count[1] + 1])
       /\ UNCHANGED <<cvars, clocks, s2c_read, tvars>>
    \/ /\ pc \in {"recvfrom", "sleep"}
       /\ InFlight /\ pc = "recvfrom" => perf + 1 < deadline
       /\ Tick(ScenarioTime)
       /\ UNCHANGED <<cvars, svars, s2c_read, tvars>>

SpecInOrder == InitInOrder /\ [][NextInOrder]_vars

\* ------------------------------- two runs of the server, the same input
\* Probabilistic mode.  The two runs are started with the same options and
\* receive the same datagrams in the same order; each starts from its own
\* operating-system entropy.
FeedDatagrams == {Probe(s) : s \in 1 .. MaxN} \cup {Garbage}

InitRepro ==
    /\ ClientInit({0}) /\ ClockInit /\ s2c_read = 0 /\ TcpIdle
    /\ ServerInit(1 .. RngMod, {0}, {}, 0 .. (RngMod - 1))

NextRepro ==
    \/ \E d \in FeedDatagrams :
          /\ Len(c2s) < MaxFeed
          /\ c2s' = Append(c2s, d)
          /\ UNCHANGED <<n, timeout, pc, seq, sent_count, ack_count, seen_seqs,
                         send_perf, send_wall, ack_perf, ack_wall, finalized,
                         rows, deadline, got_current, rx_error, summary, early>>
          /\ UNCHANGED others
    \/ \E r \in Runs : ServerStart(r) /\ UNCHANGED <<cvars, clocks, s2c_read, tvars>>
    \/ \E r \in Runs :
          /\ recv_count[r] < Len(c2s)
          /\ ServerRecv(r, c2s[recv_count[r] + 1])
          /\ UNCHANGED <<cvars, clocks, s2c_read, tvars>>

SpecRepro == InitRepro /\ [][NextRepro]_vars

\* --------------------------------------- the server started with any options
\* argparse accepts any float for --loss-prob and any int for --drop-k, the
\* defaults (0.0 and 0) and negative values included.  The runs receive the
\* fed datagrams in order.
AnyLossProbs == (0 - 1) .. RngMod
AnyDropKs == (0 - 1) .. MaxK

InitStart ==
    /\ ClientInit({0}) /\ ClockInit /\ s2c_read = 0 /\ TcpIdle
    /\ ServerInit(AnyLossProbs, AnyDropKs, {}, {0})

SpecStart == InitStart /\ [][NextRepro]_vars

\* ------------------------------- TCP client and server, reliable stream
\* The connection is established; every line written is read, in order, and
\* the ack is received before the receive timeout.
InitTcp ==
    /\ ClientInit({0}) /\ ClockInit /\ s2c_read = 0 /\ ServerIdle
    /\ TcpInit(0 .. MaxTcpN, 0 .. MaxDelay, 0 .. MaxTcpSkew, {MaxTcpTimeout})

utvars == <<cvars, clocks, svars, s2c_read>>

NextTcp ==
    \/ TcpSend /\ UNCHANGED <<tsvars, tnow, utvars>>
    \/ \E k \in 1 .. (Len(down) - down_read) :
          TcpRecv(k) /\ UNCHANGED <<tsvars, tnow, utvars>>
    \/ TcpSummarize /\ UNCHANGED <<tsvars, tnow, utvars>>
    \/ TcpSrvRead /\ UNCHANGED <<tcvars, tnow, utvars>>
    \/ TcpSrvAck /\ UNCHANGED <<tcvars, tnow, utvars>>
    \/ TcpTick /\ UNCHANGED <<tcvars, tsvars, utvars>>

SpecTcp == InitTcp /\ [][NextTcp]_vars

\* ------------------------------------------ the TCP client on any stream
\* The client alone, connected to an arbitrary peer: a recv may return any
\* line or lines, nothing at all (the peer has closed), time out or fail, and
\* a sendall may fail.
AnyLines ==
    {AckLine(s, ts) : s \in 1 .. MaxTcpN, ts \in 0 .. MaxTcpTime}
        \cup {AckLineNoTs(s) : s \in 1 .. MaxTcpN}
        \cup {AckLineNoSeq(ts) : ts \in 0 .. MaxTcpTime}
        \cup {Garbage}
AnyReads ==
    {<<l>> : l \in AnyLines} \cup {<<>>}
        \cup {<<AckLine(s, ts), AckLine(s + 1, ts)>> :
                  s \in 1 .. MaxTcpN, ts \in 0 .. MaxTcpTime}

InitTcpAny ==
    /\ ClientInit({0}) /\ ClockInit /\ s2c_read = 0 /\ ServerIdle
    /\ TcpInit(0 .. MaxTcpN, {0}, {0}, 1 .. MaxTcpTimeout)

NextTcpAny ==
    \/ TcpSend /\ UNCHANGED <<tsvars, tnow, utvars>>
    \/ TcpSendFails /\ UNCHANGED <<tsvars, tnow, utvars>>
    \/ \E data \in AnyReads :
          TcpRecvData(data) /\ UNCHANGED <<down_read, tsvars, tnow, utvars>>
    \/ TcpRecvTimeout /\ UNCHANGED <<tsvars, tnow, utvars>>
    \/ TcpRecvReset /\ UNCHANGED <<tsvars, tnow, utvars>>
    \/ TcpSummarize /\ UNCHANGED <<tsvars, tnow, utvars>>
    \/ TcpTick /\ UNCHANGED <<tcvars, tsvars, utvars>>

SpecTcpAny == InitTcpAny /\ [][NextTcpAny]_vars

\* ------------------------- TCP client and server, acks may come too late
\* The stream is reliable, but the server's delay may exceed the client's
\* receive timeout.
InitTcpLate ==
    /\ ClientInit({0}) /\ ClockInit /\ s2c_read = 0 /\ ServerIdle
    /\ TcpInit(0 .. MaxTcpN, 0 .. MaxDelay, 0 .. MaxTcpSkew, 1 .. MaxTcpTimeout)

NextTcpLate ==
    \/ TcpSend /\ UNCHANGED <<tsvars, tnow, utvars>>
    \/ \E k \in 1 .. (Len(down) - down_read) :
          TcpRecv(k) /\ UNCHANGED <<tsvars, tnow, utvars>>
    \/ TcpRecvTimeout /\ UNCHANGED <<tsvars, tnow, utvars>>
    \/ TcpSummarize /\ UNCHANGED <<tsvars, tnow, utvars>>
    \/ TcpSrvRead /\ UNCHANGED <<tcvars, tnow, utvars>>
    \/ TcpSrvAck /\ UNCHANGED <<tcvars, tnow, utvars>>
    \/ TcpTick /\ UNCHANGED <<tcvars, tsvars, utvars>>

SpecTcpLate == InitTcpLate /\ [][NextTcpLate]_vars

\* ----------------------------------------- either server, any sender
\* One of the two servers is run.  Its peer sends up to n (UDP) or tn (TCP)
\* messages of any kind, well-formed or not, with repetitions; the server
\* receives them in the order sent.  Time passes while the TCP server sleeps.
EmptyLine == [kind |-> "empty", seq |-> 0]
FeedLines == {ProbeLine(s) : s \in 1 .. MaxN} \cup {Garbage, NoSeq, EmptyLine}

InitServers ==
    /\ ClockInit /\ s2c_read = 0
    /\ \/ /\ ClientInit(1 .. MaxFeed)
          /\ ServerInit({0, 2}, 0 .. MaxK, {}, {0})
          /\ TcpIdle
       \/ /\ ClientInit({0})
          /\ ServerIdle
          /\ TcpInit(1 .. MaxFeed, 0 .. MaxDelay, {0}, {1})

NextServers ==
    \/ \E d \in FeedDatagrams :
          /\ Len(c2s) < n
          /\ c2s' = Append(c2s, d)
          /\ UNCHANGED <<n, timeout, pc, seq, sent_count, ack_count, seen_seqs,
                         send_perf, send_wall, ack_perf, ack_wall, finalized,
                         rows, deadline, got_current, rx_error, summary, early>>
          /\ UNCHANGED others
    \/ ServerStart(1) /\ UNCHANGED <<cvars, clocks, s2c_read, tvars>>
    \/ /\ recv_count[1] < Len(c2s)
       /\ ServerRecv(1, c2s[recv_count[1] + 1])
       /\ UNCHANGED <<cvars, clocks, s2c_read, tvars>>
    \/ \E l \in FeedLines :
          /\ Len(up) < tn
          /\ up' = Append(up, l)
          /\ UNCHANGED <<tn, recv_timeout, tpc, tseq, tsend_ts, results, rtts,
                         tsummary, down_read>>
          /\ UNCHANGED <<tsvars, tnow, utvars>>
    \/ TcpSrvRead /\ UNCHANGED <<tcvars, tnow, utvars>>
    \/ TcpSrvAck /\ UNCHANGED <<tcvars, tnow, utvars>>
    \/ tsrv # None /\ TcpTick /\ UNCHANGED <<tcvars, tsvars, utvars>>

SpecServers == InitServers /\ [][NextServers]_vars

\* ------------------------------------------ either client, any peer
\* The UDP client on any network, or the TCP client on any stream; the other
\* client is run with --n 0.  Time is counted while a client is blocked
\* waiting for an ack.
InitClients ==
    /\ ClockInit /\ s2c_read = 0 /\ ServerIdle
    /\ \/ ClientInit(0 .. MaxN) /\ TcpInit({0}, {0}, {0}, {1})
       \/ ClientInit({0}) /\ TcpInit(0 .. MaxTcpN, {0}, {0}, 1 .. MaxTcpTimeout)

NextClients ==
    \/ SendProbe /\ UNCHANGED others
    \/ Arm /\ UNCHANGED others
    \/ WaitCheck /\ UNCHANGED others
    \/ \E m \in AnyDatagrams : ClientRecv(m) /\ UNCHANGED others
    \/ RecvTimeout /\ UNCHANGED others
    \/ AfterWait /\ UNCHANGED others
    \/ Sleep /\ UNCHANGED others
    \/ Summarize /\ UNCHANGED others
    \/ WaitTick /\ UNCHANGED <<cvars, svars, s2c_read, tvars>>
    \/ TcpSend /\ UNCHANGED <<tsvars, tnow, utvars>>
    \/ TcpSendFails /\ UNCHANGED <<tsvars, tnow, utvars>>
    \/ \E data \in AnyReads :
          TcpRecvData(data) /\ UNCHANGED <<down_read, tsvars, tnow, utvars>>
    \/ TcpRecvTimeout /\ UNCHANGED <<tsvars, tnow, utvars>>
    \/ TcpRecvReset /\ UNCHANGED <<tsvars, tnow, utvars>>
    \/ TcpSummarize /\ UNCHANGED <<tsvars, tnow, utvars>>
    \/ tpc = "recv" /\ TcpTick /\ UNCHANGED <<tcvars, tsvars, utvars>>

SpecClients == InitClients /\ [][NextClients]_vars

\* ------------------------------------------------------ claims under Spec
RowsOf(q) == {i \in DOMAIN rows : rows[i].seq = q}
RowSeqs == {rows[i].seq : i \in DOMAIN rows}
CountOutcome(o) == Cardinality({i \in DOMAIN rows : rows[i].outcome = o})
\* The row of seq q, for a q that has one.
RowOf(q) == rows[CHOOSE i \in RowsOf(q) : TRUE]

\* C1: whatever is delivered to the client, no seq ever has two rows, the rows
\* are those of the finalized seqs, each with outcome ACKED or TIMEOUT, and
\* when the run has ended with N >= 1 there is exactly one row for each seq
\* of 1..N and no other row.
C1_ExactlyOneRow ==
    /\ \A q \in RowSeqs : Cardinality(RowsOf(q)) = 1
    /\ RowSeqs = finalized
    /\ \A i \in DOMAIN rows : rows[i].outcome \in {"ACKED", "TIMEOUT"}
    /\ (pc = "done" /\ n >= 1) =>
           /\ RowSeqs = 1 .. n
           /\ Len(rows) = n

C1_Witness ==
    /\ pc = "done" /\ n = MaxN
    /\ rx_error
    /\ Has(ack_perf, n + 1)
    /\ CountOutcome("ACKED") >= 1 /\ CountOutcome("TIMEOUT") >= 1
    /\ \E q \in 1 .. n : Has(ack_perf, q) /\ RowOf(q).outcome = "TIMEOUT"

\* An ack datagram for seq s is received while s is already finalized.
LateAck(m) == ClientRecv(m) /\ ParseSeq(m) # None /\ m.seq \in finalized

\* C2: receiving an ack for an already finalized seq changes no row of the
\* log (so not the row of that seq), leaves ack_count unchanged and finalizes
\* no seq.
C2_LateAckInert ==
    [][\A m \in AnyDatagrams :
          LateAck(m) => /\ rows' = rows
                        /\ ack_count' = ack_count
                        /\ finalized' = finalized]_vars

\* A seq was declared TIMEOUT and its ack was observed afterwards, while a
\* later seq was awaited.
C2_Witness ==
    \E q \in finalized :
        /\ Has(ack_perf, q) /\ RowOf(q).outcome = "TIMEOUT"
        /\ seq > q /\ pc = "wait"

\* C3: every row finalized as ACKED carries an rtt_ms that is
\* (first-observed ack time - send time) * 1000 and is >= 0.
C3_AckedRttNonNegative ==
    \A i \in DOMAIN rows :
        rows[i].outcome = "ACKED" =>
            /\ rows[i].rtt_ms # None
            /\ rows[i].rtt_ms[1] >= 0

\* The turn of seq q is over.
TurnOver(q) == q < seq \/ (q = seq /\ pc \in {"sleep", "for", "done"})

\* C4: (2) a seq whose ack was first observed while an earlier seq was awaited
\* is ACKED once its own turn is over, with the ack time and the RTT of that
\* first observation; a stored first-observation time is never replaced; and
\* (1) the ack of a later seq neither finalizes the awaited seq nor ends its
\* wait.
C4_EarlyAck ==
    /\ [](\A j \in early :
             TurnOver(j) =>
                 /\ j \in finalized /\ RowsOf(j) # {}
                 /\ RowOf(j).outcome = "ACKED"
                 /\ RowOf(j).ack_ts = Some(ack_wall[j])
                 /\ RowOf(j).rtt_ms = Some(RttMs(ack_perf[j], send_perf[j])))
    /\ [][/\ \A s \in DOMAIN ack_perf :
                /\ Has(ack_perf', s) /\ ack_perf'[s] = ack_perf[s]
                /\ Has(ack_wall', s) /\ ack_wall'[s] = ack_wall[s]
          /\ \A m \in AnyDatagrams :
                (ClientRecv(m) /\ ParseSeq(m) # None /\ m.seq > seq) =>
                    /\ rows' = rows /\ finalized' = finalized
                    /\ ack_count' = ack_count
                    /\ pc' = "wait"]_vars

\* The ack of seq 2 was observed during the wait on seq 1, again later, and
\* seq 2 has been finalized.
C4_Witness ==
    /\ 2 \in early /\ 2 \in finalized
    /\ 1 \in finalized
    /\ ack_perf[2] < send_perf[2]
    /\ pc = "done"

\* A received datagram that is malformed or carries a seq outside 1..N.
Ignorable(m) == ParseSeq(m) = None \/ m.seq \notin 1 .. n

\* C9: receiving a malformed datagram, or an ack whose seq is outside 1..N,
\* changes no row and no counter, does not end the run and neither ends nor
\* moves the current wait: the client returns to the head of the wait loop
\* with the deadline set when the probe was sent.
C9_IgnoredDatagram ==
    [][\A m \in AnyDatagrams :
          (ClientRecv(m) /\ Ignorable(m)) =>
              /\ rows' = rows /\ finalized' = finalized
              /\ ack_count' = ack_count /\ sent_count' = sent_count
              /\ deadline' = deadline /\ got_current' = got_current
              /\ seq' = seq /\ summary' = summary
              /\ pc' = "wait"]_vars

C9_Witness ==
    /\ n >= 1 /\ pc = "done"
    /\ rx_error
    /\ Has(ack_perf, n + 1)

\* C10: at the end of a session with N >= 1, sent_count = N and
\* ack_count <= sent_count; ack_count is (at all times) the number of ACKED
\* rows, so that at the end sent_count - ack_count is the number of TIMEOUT
\* rows; the summary reports these two counters.
C10_Counters ==
    /\ ack_count = CountOutcome("ACKED")
    /\ (pc = "done" /\ n >= 1) =>
           /\ sent_count = n
           /\ ack_count <= sent_count
           /\ sent_count - ack_count = CountOutcome("TIMEOUT")
           /\ summary[1].sent = sent_count
           /\ summary[1].acked = ack_count

C10_Witness ==
    /\ pc = "done" /\ n = MaxN
    /\ ack_count >= 1 /\ ack_count < sent_count

\* C14: the log holds the rows of seq 1, 2, ... in this order at all times
\* (the row of seq i+1 is never written before the row of seq i), whatever
\* the order in which acks are received; the probes are sent in seq order, and
\* the probe of seq i+1 is sent only when seq i is finalized.
C14_RowsInSeqOrder ==
    /\ [](/\ \A i \in DOMAIN rows : rows[i].seq = i
          /\ c2s = [i \in 1 .. Len(c2s) |-> Probe(i)]
          /\ \A q \in 1 .. Len(c2s) : q < Len(c2s) => q \in finalized)
    /\ [][Len(c2s') > Len(c2s) =>
             /\ Len(c2s') = seq + 1
             /\ seq >= 1 => (seq \in finalized /\ Len(rows) = seq)]_vars

\* The ack of seq 2 was observed before the ack of seq 1, both seqs are ACKED
\* and the run has ended.
C14_Witness ==
    /\ pc = "done" /\ n = 2 /\ Len(rows) = 2
    /\ Has(ack_perf, 1) /\ Has(ack_perf, 2)
    /\ ack_perf[2] < ack_perf[1]
    /\ rows[1].outcome = "ACKED" /\ rows[2].outcome = "ACKED"

\* C18: with the clock advancing the client eventually has finalized every
\* seq of 1..N, printed the summary and stopped, whatever the network keeps
\* delivering; the deadline of a wait does not move during the wait; a
\* receive is started only before the deadline; and a receive that times out
\* ends the wait.
C18_Terminates ==
    /\ <>(pc = "done" /\ finalized = 1 .. n /\ summary # None)
    /\ [][/\ pc \in {"wait", "recvfrom"} => deadline' = deadline
          /\ (pc = "wait" /\ pc' = "recvfrom") => now_perf < deadline
          /\ (pc = "recvfrom" /\ pc' = "recvfrom") => perf' > perf
          /\ RecvTimeout => (pc' = "after" /\ now_perf >= deadline)]_vars

\* The run has ended after a malformed datagram, an ack of another seq and a
\* duplicate were received; one seq timed out.
C18_Witness ==
    /\ pc = "done" /\ n = MaxN /\ summary # None
    /\ rx_error /\ Has(ack_perf, n + 1)
    /\ perf = MaxN * timeout
    /\ CountOutcome("TIMEOUT") = MaxN

\* C20: at the step that finalizes seq i, the outcome is ACKED exactly when an
\* ack carrying seq i has been observed by then (in the window of an earlier
\* seq or in its own); an ack of i first observed when i is already finalized
\* is stored in the first-observation maps and changes neither the rows nor
\* ack_count, so that a seq with outcome TIMEOUT and a stored observation
\* was observed no earlier than the end of its window (send time + timeout).
C20_AckedIffObservedInTime ==
    /\ [](\A i \in finalized :
             /\ RowOf(i).outcome = "ACKED" => Has(ack_perf, i)
             /\ (RowOf(i).outcome = "TIMEOUT" /\ Has(ack_perf, i)) =>
                    ack_perf[i] >= send_perf[i] + timeout)
    /\ [][/\ \A i \in finalized' \ finalized :
                /\ i = seq
                /\ (rows'[Len(rows')].outcome = "ACKED") <=> Has(ack_perf', i)
                /\ rows'[Len(rows')].seq = i
          /\ \A i \in finalized :
                (~Has(ack_perf, i) /\ Has(ack_perf', i)) =>
                    /\ ack_perf'[i] = now_perf
                    /\ rows' = rows /\ ack_count' = ack_count
                    /\ finalized' = finalized]_vars

\* Seq 1 timed out and its ack was first observed afterwards; the ack of seq
\* 2 was first observed during the window of seq 1 and seq 2 is ACKED.
C20_Witness ==
    /\ pc = "done" /\ n = 2 /\ ack_count = 1
    /\ RowOf(1).outcome = "TIMEOUT" /\ Has(ack_perf, 1)
    /\ ack_perf[1] >= send_perf[1] + timeout
    /\ 2 \in early /\ RowOf(2).outcome = "ACKED"

\* ------------------------------------------------ claims, client and server
AckedSeqs(r) == {acks[r][i].seq : i \in DOMAIN acks[r]}
Logged(r, what) == {srv_log[r][i][2] : i \in {j \in DOMAIN srv_log[r] : srv_log[r][j][1] = what}}

\* C5: deterministic mode with drop_k = k > 0 on a network that loses, delays,
\* reorders and duplicates but invents nothing: for every seq of 1..N with
\* seq mod k = 0 the server sends no ack, and the client finalizes that seq
\* as TIMEOUT (it has done so when the run ends).
C5_DropKTimeout ==
    \A s \in 1 .. n :
        (drop_k > 0 /\ s % drop_k = 0) =>
            /\ s \notin AckedSeqs(1)
            /\ s \in finalized => RowOf(s).outcome = "TIMEOUT"
            /\ pc = "done" => s \in finalized

\* Seq 2 reached the server with drop_k = 2, twice, and timed out; seq 1 was
\* acknowledged.
C5_Witness ==
    /\ pc = "done" /\ n = 2 /\ drop_k = 2
    /\ srv_log[1] = <<<<"ACK", 1>>, <<"DROP-K", 2>>, <<"DROP-K", 2>>>>
    /\ RowOf(1).outcome = "ACKED" /\ RowOf(2).outcome = "TIMEOUT"

\* C6: on the timely in-order network a seq is finalized TIMEOUT exactly when
\* drop_k > 0 and seq mod drop_k = 0, and ACKED otherwise; the summary reports
\* sent = N and acked = N minus the number of multiples of drop_k in 1..N
\* (N = 10, drop_k = 3: TIMEOUT for 3, 6, 9; sent = 10, acked = 7).
C6_InOrderOutcomes ==
    /\ \A s \in finalized :
          RowOf(s).outcome =
              IF drop_k > 0 /\ s % drop_k = 0 THEN "TIMEOUT" ELSE "ACKED"
    /\ pc = "done" =>
          /\ finalized = 1 .. n
          /\ summary[1].sent = n
          /\ summary[1].acked = n - (IF drop_k > 0 THEN n \div drop_k ELSE 0)

C6_Witness ==
    /\ pc = "done" /\ n = 10 /\ drop_k = 3
    /\ {s \in 1 .. n : RowOf(s).outcome = "TIMEOUT"} = {3, 6, 9}
    /\ {s \in 1 .. n : RowOf(s).outcome = "ACKED"} = {1, 2, 4, 5, 7, 8, 10}
    /\ summary[1].sent = 10 /\ summary[1].acked = 7

\* C7: on the reliable stream with server delay d, at the end every seq of
\* 1..N is recorded as acknowledged and every reported rtt_ms is >= d.
C7_RttIncludesDelay ==
    tpc = "done" =>
        /\ Len(rtts) = tn
        /\ \A i \in DOMAIN results :
              results[i][4] # None /\ results[i][4][1] >= delay_ms

\* The positions of the run's log at which a probe was dropped.
DroppedAt(r) == {i \in DOMAIN srv_log[r] : srv_log[r][i][1] = "LOSS-PROB"}
MinLen(a, b) == IF Len(a) <= Len(b) THEN Len(a) ELSE Len(b)

\* C8: two runs with the same seed and loss probability that receive the same
\* datagrams decide alike: the i-th well-formed probe is dropped in one run
\* iff it is dropped in the other, so that after the same number of datagrams
\* the dropped sequence numbers are the same.
C8_SameDrops ==
    /\ \A i \in 1 .. MinLen(srv_log[1], srv_log[2]) : srv_log[1][i] = srv_log[2][i]
    /\ recv_count[1] = recv_count[2] =>
          /\ DroppedAt(1) = DroppedAt(2)
          /\ Logged(1, "LOSS-PROB") = Logged(2, "LOSS-PROB")

\* Both runs, started from different entropy, have handled the same three
\* datagrams, one of them malformed, dropping one probe and acknowledging one.
C8_Witness ==
    /\ recv_count[1] = MaxFeed /\ recv_count[2] = MaxFeed
    /\ Garbage \in {c2s[i] : i \in DOMAIN c2s}
    /\ DroppedAt(1) # {} /\ Logged(1, "ACK") # {}
    /\ Len(srv_log[2]) = 2

\* --------------------------------------------- claims, the server's start-up
\* C11: whenever --loss-prob and --drop-k are both non-zero the server exits
\* before binding: the run never listens, never receives a datagram and never
\* sends an ack.
C11_BothNonZeroExits ==
    (loss_prob # 0 /\ drop_k # 0) =>
        \A r \in Runs : /\ srv_pc[r] # "listening"
                        /\ recv_count[r] = 0
                        /\ acks[r] = <<>>

\* Run r is past start-up and has processed a datagram.
Processing(r) == srv_pc[r] = "listening" /\ recv_count[r] > 0

ResultSeqs == {results[i][1] : i \in DOMAIN results}

\* C13: whatever the stream delivers, when the summary is printed the client
\* has recorded exactly one result for every seq of 1..N, and the reported
\* "sent" is the number of probes actually sent.
C13_AllSeqsRecorded ==
    tpc = "done" =>
        /\ Len(results) = tn
        /\ ResultSeqs = 1 .. tn
        /\ tsummary[1].sent = Len(up)

\* C17: a result with an ack_ts and an rtt_ms is recorded for seq i only when
\* the line just received is an ack that carries seq = i.
C17_AckMatchesSeq ==
    [][\A i \in DOMAIN results' :
          (i \notin DOMAIN results /\ results'[i][3] # None) =>
              /\ down_read' = down_read + 1
              /\ down[down_read + 1].kind = "json_seq"
              /\ down[down_read + 1].seq = results'[i][1]]_vars

\* ------------------------------------------------- claims, the two servers
\* The well-formed probes among the first k messages of the sequence msgs.
WellFormed(msgs, k) ==
    SelectSeq(SubSeq(msgs, 1, k), LAMBDA d : ParseSeq(d) # None)
AckEvents(r) == SelectSeq(srv_log[r], LAMBDA ev : ev[1] = "ACK")

\* C15: each server decides once per well-formed probe received, in order:
\* the UDP server's events and the TCP server's acks (written or pending)
\* match the well-formed probes one to one and carry their seqs; an ack is
\* sent once per "ACK" event and for nothing else (none for a malformed
\* message, none for a probe the drop-k rule or the random draw drops); so
\* the acks sent never outnumber the well-formed probes received.
C15_OneAckPerProbe ==
    /\ LET wf == WellFormed(c2s, recv_count[1]) IN
          /\ Len(srv_log[1]) = Len(wf)
          /\ \A i \in DOMAIN wf :
                /\ srv_log[1][i][2] = wf[i].seq
                /\ (drop_k > 0 /\ wf[i].seq % drop_k = 0) =>
                       srv_log[1][i][1] = "DROP-K"
          /\ Len(acks[1]) = Len(AckEvents(1))
          /\ \A i \in DOMAIN acks[1] :
                acks[1][i].kind = "json_seq" /\ acks[1][i].seq = AckEvents(1)[i][2]
          /\ Len(acks[1]) <= Len(wf)
    /\ LET wf == WellFormed(up, up_read) IN
          /\ Len(down) + (IF tsrv = None THEN 0 ELSE 1) = Len(wf)
          /\ \A i \in DOMAIN down :
                down[i].kind = "json_seq" /\ down[i].seq = wf[i].seq
          /\ tsrv # None => tsrv[1].seq = wf[Len(wf)].seq
          /\ Len(down) <= Len(wf)

\* The UDP server has received the same probe twice, acknowledged each copy
\* once, and dropped another probe.
C15_Witness ==
    /\ recv_count[1] = MaxFeed
    /\ \E i, j \in DOMAIN srv_log[1] :
          i < j /\ srv_log[1][i] = srv_log[1][j] /\ srv_log[1][i][1] = "ACK"
    /\ Len(acks[1]) = 2
    /\ Logged(1, "DROP-K") # {}

\* C16: the server_recv_ts of an ack is the server's clock reading of the step
\* in which the probe line was read: when a well-formed line is read that
\* reading is what is kept for the ack (or written at once without delay),
\* and when an ack is written after a delay d > 0 it carries the reading
\* kept, which lies at least d before the time of writing and is not the
\* time of writing.
C16_RecvTsBeforeDelay ==
    [][/\ (up_read' = up_read + 1 /\ ParseSeq(up[up_read + 1]) # None) =>
             IF delay_ms > 0
             THEN tsrv' # None /\ tsrv'[1].recv_ts = ServerWall /\ down' = down
             ELSE /\ Len(down') = Len(down) + 1
                  /\ down'[Len(down')].server_recv_ts = ServerWall
       /\ (Len(down') > Len(down) /\ delay_ms > 0) =>
             /\ tsrv # None
             /\ down'[Len(down')].server_recv_ts = tsrv[1].recv_ts
             /\ down'[Len(down')].server_recv_ts + delay_ms <= ServerWall
             /\ down'[Len(down')].server_recv_ts # ServerWall]_vars

\* With the largest delay, the probe of seq 1 arrived at time 1 and its ack
\* has been written, not before time 1 + delay.
C16_Witness ==
    /\ delay_ms = MaxDelay /\ Len(down) >= 1
    /\ down[1].server_recv_ts = 1 + srv_skew
    /\ tnow >= 1 + delay_ms

\* ------------------------------------------------ claims, the two summaries
\* The rows, and the TCP results, that record an ack.
AckedRows == SelectSeq(rows, LAMBDA r : r.outcome = "ACKED")
AckedResults == SelectSeq(results, LAMBDA r : r[3] # None)
Abs(x) == IF x >= 0 THEN x ELSE 0 - x
Sign(x) == IF x >= 0 THEN 1 ELSE 0 - 1

\* C19: in each client's summary the reported acked count is the number of
\* acknowledged records, every acknowledged record has an RTT, the RTT
\* statistics are those of exactly these RTT values, and with no acknowledged
\* record they are null (UDP: avg, min and max; TCP: rtt_ms).
C19_StatsOverAcked ==
    /\ pc = "done" =>
          LET s == summary[1]
              v == [i \in DOMAIN AckedRows |-> AckedRows[i].rtt_ms[1]]
          IN /\ s.acked = Len(AckedRows)
             /\ \A i \in DOMAIN AckedRows : AckedRows[i].rtt_ms # None
             /\ IF Len(AckedRows) = 0
                THEN s.rtt_ms = [avg |-> None, min |-> None, max |-> None]
                ELSE /\ s.rtt_ms.min = Some(1000 * SeqMin(v))
                     /\ s.rtt_ms.max = Some(1000 * SeqMax(v))
                     /\ s.rtt_ms.avg # None
                     /\ 2 * Abs(s.rtt_ms.avg[1] * Len(v) - 1000 * SeqSum(v)) <= Len(v)
                     /\ Sign(s.rtt_ms.avg[1]) = Sign(SeqSum(v)) \/ s.rtt_ms.avg[1] = 0
    /\ tpc = "done" =>
          LET s == tsummary[1]
              v == [i \in DOMAIN AckedResults |-> AckedResults[i][4][1]]
          IN /\ s.acked = Len(AckedResults)
             /\ \A i \in DOMAIN AckedResults : AckedResults[i][4] # None
             /\ IF Len(AckedResults) = 0
                THEN s.rtt_ms = None
                ELSE s.rtt_ms = Some([min |-> SeqMin(v), max |-> SeqMax(v),
                                      sum |-> SeqSum(v)])

\* The UDP client has ended with one seq ACKED and one TIMEOUT (statistics of
\* one sample); the TCP client, run with --n 0, has printed null statistics.
C19_Witness ==
    /\ pc = "done" /\ n = MaxN
    /\ Len(AckedRows) = 1 /\ CountOutcome("TIMEOUT") = 1
    /\ summary[1].rtt_ms.avg # None
    /\ tpc = "done" /\ tsummary[1].rtt_ms = None

====
